---- MODULE Spec2Model ----
(***************************************************************************)
(* Startup-hook orchestration and consent gating of the Copilot Prompt     *)
(* Hooks extension: activate / onDidChangeWorkspaceFolders (extension.ts), *)
(* HooksManager.runStartupHooks (hooksManager.ts) and ConsentManager       *)
(* (consentManager.ts).                                                    *)
(*                                                                         *)
(* All handlers are async functions running on one event loop.  A handler  *)
(* runs without interruption up to an await of host I/O, of a timer or of  *)
(* a user answer; each action below is one such uninterrupted stretch.     *)
(* The invocations of runStartupHooks that have not returned yet are kept  *)
(* as a bag of their local states: the field pc is the await at which the  *)
(* invocation is suspended.                                                *)
(***************************************************************************)
EXTENDS Integers, Sequences, FiniteSets, Bags, TLC

\* Bounds of the model.
MaxInvocations == 2   \* runStartupHooks invocations that may be in flight at once
NumContents == 2      \* distinct contents of .vscode/copilot-hooks.json
MaxMatchers == 2      \* matchers under an event name of a configuration
MaxHooks == 2         \* hooks of a configuration, over all its matchers
MaxFolders == 2       \* workspace folders
MaxCalls == 2         \* runPromptFile calls that may be in flight at once

Contents == 1..NumContents

\* fs.readFile(configUri) throws: the file does not exist.
Missing == 0
\* The skeleton that configureHooks writes when the file does not exist.
DefaultConfig == 1

\* undefined as the value of a configHash (falsy, like a missing field).
NoHash == << >>

\* crypto.createHash('sha256').update(data).digest('hex').substring(0, 16):
\* distinct contents of the model have distinct digests.
sha256hex16(data) == <<"sha256", data>>

\* ConsentManager.getHooksConfigHash
getHooksConfigHash(ws, file) ==
    IF ~ws THEN NoHash
    ELSE IF file = Missing THEN NoHash
    ELSE sha256hex16(file)

Hashes == {NoHash} \cup {sha256hex16(c) : c \in Contents}

\* workspaceState.get(key) = undefined: no consent record.
NoConsent == [status |-> "none", configHash |-> NoHash]

\* WorkspaceConsent.  The timestamp field is written by setConsent and read
\* by nothing, it is left out.
WorkspaceConsent == [status : {"granted", "denied"}, configHash : Hashes]

\* this.hooksConfig = undefined
NoHooksConfig == << >>

\* HookEventName
HookEventName == {"SessionStart", "PreChat", "PostChat", "FolderOpen"}

\* A string field that is missing or empty: both are falsy.
NoString == ""

\* Hook.  timeout and description are read by nothing, they are left out.
Hook(type, promptFile, command) ==
    [type |-> type, promptFile |-> promptFile, command |-> command]

\* HookMatcher.  isArray is FALSE for a matcher of the file that has no
\* hooks sequence (matcher.hooks is undefined).
HookMatcher(hooks) == [isArray |-> TRUE, hooks |-> hooks]
MatcherWithoutHooks == [isArray |-> FALSE, hooks |-> << >>]

\* The value of config.hooks[eventName]: undefined, or a sequence of
\* matchers (an empty sequence is truthy).
NoMatchers == [defined |-> FALSE, matchers |-> << >>]
Matchers(ms) == [defined |-> TRUE, matchers |-> ms]

\* HooksConfig with matchers under one event name.  isMapping is FALSE for
\* a parsed file that has no "hooks" mapping (config.hooks is undefined).
HooksConfig(eventName, entry) ==
    [isMapping |-> TRUE,
     hooks |-> [e \in HookEventName |-> IF e = eventName THEN entry ELSE NoMatchers]]
ConfigWithoutHooks ==
    [isMapping |-> FALSE, hooks |-> [e \in HookEventName |-> NoMatchers]]

\* The contents of the file in the model:
\*   DefaultConfig   the skeleton of configureHooks
\*   EmptyObject     valid JSON without a "hooks" mapping, such as {}
\*   NotJSON         text that JSON.parse rejects
\*   any other       {"hooks": {}}
EmptyObject == 2
NotJSON == 3

\* JSON.parse(configText) throws a SyntaxError.
JSONparses(c) == c # NotJSON

\* JSON.parse(configText) as HooksConfig, for a content that parses.
JSONparse(c) ==
    CASE c = DefaultConfig ->
           HooksConfig("SessionStart",
               Matchers(<<HookMatcher(<<Hook("prompt", "startup.prompt.md", NoString)>>)>>))
      [] c = EmptyObject -> ConfigWithoutHooks
      [] OTHER -> HooksConfig("SessionStart", NoMatchers)

\* The value loadHooksConfig assigns to this.hooksConfig.
loadHooksConfig(ws, file, old) ==
    IF ~ws THEN old
    ELSE IF file = Missing \/ ~JSONparses(file) THEN NoHooksConfig
    ELSE JSONparse(file)

\* runHooksForEvent raises a TypeError instead of returning: the loaded
\* configuration has no "hooks" mapping (line 242), or a matcher of the
\* event has no hooks sequence to iterate (line 266).
runHooksForEventRaises(config, eventName) ==
    /\ config # NoHooksConfig
    /\ \/ ~config.isMapping
       \/ /\ config.hooks[eventName].defined
          /\ \E i \in DOMAIN config.hooks[eventName].matchers :
                ~config.hooks[eventName].matchers[i].isArray

\* The answers to the consent prompt; "dismiss" is the undefined selection.
Selections == {"Allow", "Allow Always", "Deny", "Configure", "dismiss"}

VARIABLES
    settings,               \* copilotPromptHooks.* settings
    workspaceOpen,          \* vscode.workspace.workspaceFolders is not empty
    phase,                  \* position of activate()
    sessionRanThisProcess,  \* module-level flag of hooksManager.ts
    hooksConfig,            \* HooksManager.hooksConfig
    workspaceState,         \* the consent record of the workspace
    configFile,             \* content of .vscode/copilot-hooks.json
    invocations,            \* bag of the runStartupHooks invocations in flight
    dispatched,             \* a SessionStart dispatch completed in this process
    consentHistory          \* "denied": a denial was stored since the last reset;
                            \* "erasedDenied": the last reset erased a denial

\* One call of HooksManager.runHooksForEvent, hook by hook.
VARIABLES
    eventName,              \* its argument (of the last call, in Spec)
    dispatchPc,             \* where the call is
    matcherIndex,           \* the matcher of the loop of line 243
    hookIndex,              \* the hook of the loop of line 266
    results,                \* the HookExecutionResults so far
    promptPath,             \* startupPromptPath as read by the fallback
    promptRuns,             \* the files handed to promptRunner.runPromptFile
    fallbackCalls,          \* calls of runFallbackStartupPrompt
    offers                  \* calls of offerToCreateStartupPrompt

startupVars == <<settings, phase, sessionRanThisProcess, workspaceState, configFile,
                 invocations, dispatched, consentHistory>>

dispatchVars == <<eventName, dispatchPc, matcherIndex, hookIndex, results, promptPath,
                  promptRuns, fallbackCalls, offers>>

\* One call of PromptDiscovery.findStartupPrompt, and the files it looks at.
VARIABLES
    workspaceFolders,       \* vscode.workspace.workspaceFolders
    files,                  \* the prompt files that exist
    discoveryPc,            \* where the call is
    pathIndex,              \* the path of the loop of line 28
    found,                  \* what the call returns
    globSearches            \* calls of vscode.workspace.findFiles

discoveryVars == <<workspaceFolders, files, discoveryPc, pathIndex, found, globSearches>>

\* PromptRunner and the command registry of the host.
VARIABLES
    workingCommand,         \* PromptRunner.workingCommand
    registry,               \* the commands vscode.commands.getCommands lists
    calls                   \* bag of the runPromptFile calls in flight

runnerVars == <<workingCommand, registry, calls>>

\* A file reference: a workspace folder and a path relative to it.
Uri(folder, path) == <<folder, path>>

\* A file reference that is undefined.
NoUri == << >>

\* vscode.workspace.workspaceFolders?.[0]: the folders are numbered in
\* their order.
FirstFolder == 1

\* No command identifier: workingCommand is undefined.
NoCommand == ""

\* No call of findStartupPrompt is followed.
DiscoveryIdle ==
    /\ workspaceFolders = <<FirstFolder>>
    /\ files = {}
    /\ discoveryPc = "idle"
    /\ pathIndex = 0
    /\ found = NoUri
    /\ globSearches = 0

\* No call of runPromptFile is followed.
RunnerIdle ==
    /\ workingCommand = NoCommand
    /\ registry = {}
    /\ calls = EmptyBag

\* The variables of the specifications of single units.
unitVars == <<dispatchVars, discoveryVars, runnerVars>>

vars == <<workspaceOpen, hooksConfig, startupVars, unitVars>>

\* No call of runHooksForEvent is followed hook by hook.
DispatchIdle ==
    /\ eventName = "none"
    /\ dispatchPc = "idle"
    /\ matcherIndex = 0
    /\ hookIndex = 0
    /\ results = << >>
    /\ promptPath = NoString
    /\ promptRuns = << >>
    /\ fallbackCalls = 0
    /\ offers = 0

Settings == [enabled : BOOLEAN, runOncePerSession : BOOLEAN, requireConsent : BOOLEAN]

\* The local state of an invocation of runStartupHooks:
\*   pc          the await it is suspended at, or how it ended
\*   consent     the record read by getConsent, while the hash is awaited
\*   status      the status setConsent was called with, while it runs
\*   hasConsent  the result of checkAndRequestConsent
\*   prompted    requestConsent showed its prompt (until the load is over)
Invocation(p) ==
    [pc |-> p, consent |-> NoConsent, status |-> "none",
     hasConsent |-> "unset", prompted |-> FALSE]

InFlight == BagToSet(invocations)

\* The bag after invocation r moved to local state r2.
Moved(r, r2) == (invocations (-) SetToBag({r})) (+) SetToBag({r2})

Init ==
    /\ settings \in Settings
    /\ workspaceOpen \in BOOLEAN
    /\ phase = "inactive"
    /\ sessionRanThisProcess = FALSE
    /\ hooksConfig = NoHooksConfig
    /\ workspaceState = NoConsent
    /\ configFile \in {Missing} \cup Contents
    /\ invocations = EmptyBag
    /\ dispatched = FALSE
    /\ consentHistory = "none"
    /\ DispatchIdle
    /\ DiscoveryIdle
    /\ RunnerIdle

\* Variant: a granted record is trusted without comparing fingerprints.
checkAndRequestConsentNoCompare(ws, rec, currentHash) ==
    IF ~ws THEN "false"
    ELSE IF rec.status = "granted" THEN "true"
    ELSE IF rec.status = "denied" THEN "false"
    ELSE "prompt"

\* Variant: the fingerprints are compared also when none is stored.
checkAndRequestConsentStrict(ws, rec, currentHash) ==
    IF ~ws THEN "false"
    ELSE IF rec.status = "granted"
        THEN IF currentHash # rec.configHash THEN "prompt" ELSE "true"
    ELSE IF rec.status = "denied" THEN "false"
    ELSE "prompt"

\* ConsentManager.checkAndRequestConsent as a decision on the record read
\* and the current hash: "true", "false", or "prompt" (requestConsent).
checkAndRequestConsent(ws, rec, currentHash) ==
    IF ~ws THEN "false"
    ELSE IF rec.status = "granted"
        THEN IF rec.configHash # NoHash /\ currentHash # rec.configHash
             THEN "prompt"
             ELSE "true"
    ELSE IF rec.status = "denied" THEN "false"
    ELSE "prompt"

\* The switch of ConsentManager.requestConsent on the user's selection.
requestConsent(selection) ==
    CASE selection \in {"Allow", "Allow Always"} -> "granted"
      [] selection = "Deny" -> "denied"
      [] selection = "Configure" -> "configure"
      [] OTHER -> "dismissed"

\* Variant: the record is written without the fingerprint.
setConsentNoHash(st, ws, file) == [status |-> st, configHash |-> NoHash]

\* ConsentManager.setConsent: the record written to workspaceState.
setConsent(st, ws, file) ==
    [status |-> st, configHash |-> getHooksConfigHash(ws, file)]

\* The command copilot-prompt-hooks.configureHooks: the file afterwards.
configureHooks(ws, file) ==
    IF ~ws THEN file
    ELSE IF file = Missing THEN DefaultConfig
    ELSE file

\* Variant: the consent check is left out.
runStartupHooksUngated ==
    IF settings.runOncePerSession /\ sessionRanThisProcess
    THEN Invocation("skipped")
    ELSE Invocation("loading")

\* HooksManager.runStartupHooks from its call to its first suspension: the
\* local state of the new invocation.
runStartupHooks ==
    IF settings.runOncePerSession /\ sessionRanThisProcess
    THEN Invocation("skipped")
    ELSE IF settings.requireConsent
    THEN IF workspaceOpen /\ workspaceState.status = "granted"
         THEN \* await this.getHooksConfigHash()
              [Invocation("hashing") EXCEPT !.consent = workspaceState]
         ELSE IF checkAndRequestConsent(workspaceOpen, workspaceState, NoHash) = "false"
         THEN [Invocation("refused") EXCEPT !.hasConsent = "false"]
         ELSE \* await showInformationMessage(...)
              [Invocation("prompting") EXCEPT !.prompted = TRUE]
    ELSE \* await this.loadHooksConfig()
         Invocation("loading")

\* activate(): returns at once when disabled, otherwise registers the
\* commands and awaits runStartupHooks when a workspace is open.
Activate ==
    /\ phase = "inactive"
    /\ IF ~settings.enabled
       THEN phase' = "disabled" /\ UNCHANGED invocations
       ELSE IF workspaceOpen
       THEN /\ phase' = "activating"
            /\ invocations' = invocations (+) SetToBag({runStartupHooks})
       ELSE phase' = "active" /\ UNCHANGED invocations
    /\ UNCHANGED <<settings, workspaceOpen, sessionRanThisProcess, hooksConfig,
                   workspaceState, configFile, dispatched, consentHistory>>
    /\ UNCHANGED unitVars

\* onDidChangeWorkspaceFolders with event.added.length > 0.  The listener is
\* registered after activate's own await of runStartupHooks has returned.
\* Adding the first folder of a window restarts the extension host (Reload).
FolderAdded ==
    /\ phase = "active"
    /\ workspaceOpen
    /\ BagCardinality(invocations) < MaxInvocations
    /\ invocations' = invocations (+) SetToBag({runStartupHooks})
    /\ UNCHANGED <<settings, workspaceOpen, phase, sessionRanThisProcess, hooksConfig,
                   workspaceState, configFile, dispatched, consentHistory>>
    /\ UNCHANGED unitVars

\* checkAndRequestConsent of invocation r resumes with the current hash.
HashDone(r) ==
    /\ r.pc = "hashing"
    /\ LET currentHash == getHooksConfigHash(workspaceOpen, configFile)
           outcome == checkAndRequestConsent(workspaceOpen, r.consent, currentHash)
       IN  invocations' =
             IF outcome = "prompt"
             THEN Moved(r, [Invocation("prompting") EXCEPT !.prompted = TRUE])
             ELSE Moved(r, [Invocation("loading") EXCEPT !.hasConsent = "true"])
    /\ UNCHANGED <<settings, workspaceOpen, phase, sessionRanThisProcess, hooksConfig,
                   workspaceState, configFile, dispatched, consentHistory>>
    /\ UNCHANGED unitVars

\* The user answers (or dismisses) the consent prompt of invocation r.
Answer(r, selection) ==
    /\ r.pc = "prompting"
    /\ LET branch == requestConsent(selection)
       IN  invocations' =
             CASE branch \in {"granted", "denied"} ->
                    \* await this.setConsent(workspaceId, status)
                    Moved(r, [r EXCEPT !.pc = "storing", !.status = branch])
               [] branch = "configure" ->
                    \* await executeCommand('copilot-prompt-hooks.configureHooks')
                    Moved(r, [r EXCEPT !.pc = "configuring"])
               [] OTHER ->
                    Moved(r, [r EXCEPT !.pc = "refused", !.hasConsent = "false"])
    /\ UNCHANGED <<settings, workspaceOpen, phase, sessionRanThisProcess, hooksConfig,
                   workspaceState, configFile, dispatched, consentHistory>>
    /\ UNCHANGED unitVars

\* setConsent has read the file and updates workspaceState; requestConsent
\* returns true after a grant and false after a denial.
StoreDone(r) ==
    /\ r.pc = "storing"
    /\ workspaceState' = setConsent(r.status, workspaceOpen, configFile)
    /\ consentHistory' = IF r.status = "denied" THEN "denied" ELSE consentHistory
    /\ invocations' =
         IF r.status = "granted"
         THEN Moved(r, [r EXCEPT !.pc = "loading", !.status = "none",
                                 !.hasConsent = "true"])
         ELSE Moved(r, [r EXCEPT !.pc = "refused", !.status = "none",
                                 !.hasConsent = "false"])
    /\ UNCHANGED <<settings, workspaceOpen, phase, sessionRanThisProcess, hooksConfig,
                   configFile, dispatched>>
    /\ UNCHANGED unitVars

\* Variant: the Configure answer is stored as a denial.
ConfigureDoneDenies(r) ==
    /\ r.pc = "configuring"
    /\ configFile' = configureHooks(workspaceOpen, configFile)
    /\ workspaceState' = setConsent("denied", workspaceOpen, configFile)
    /\ invocations' = Moved(r, [r EXCEPT !.pc = "refused", !.hasConsent = "false"])
    /\ UNCHANGED <<settings, workspaceOpen, phase, sessionRanThisProcess, hooksConfig,
                   dispatched, consentHistory>>
    /\ UNCHANGED unitVars

\* The configureHooks command run for the Configure answer has finished;
\* requestConsent returns false.
ConfigureDone(r) ==
    /\ r.pc = "configuring"
    /\ configFile' = configureHooks(workspaceOpen, configFile)
    /\ invocations' = Moved(r, [r EXCEPT !.pc = "refused", !.hasConsent = "false"])
    /\ UNCHANGED <<settings, workspaceOpen, phase, sessionRanThisProcess, hooksConfig,
                   workspaceState, dispatched, consentHistory>>
    /\ UNCHANGED unitVars

\* Variant: the dispatch follows the load without the delay.
LoadDoneNoDelay(r) ==
    /\ r.pc = "loading"
    /\ hooksConfig' = loadHooksConfig(workspaceOpen, configFile, hooksConfig)
    /\ invocations' = Moved(r, [r EXCEPT !.pc = "dispatching", !.prompted = FALSE])
    /\ UNCHANGED <<settings, workspaceOpen, phase, sessionRanThisProcess,
                   workspaceState, configFile, dispatched, consentHistory>>
    /\ UNCHANGED unitVars

\* loadHooksConfig has read and parsed the file; the delay timer starts.
LoadDone(r) ==
    /\ r.pc = "loading"
    /\ hooksConfig' = loadHooksConfig(workspaceOpen, configFile, hooksConfig)
    /\ invocations' = Moved(r, [r EXCEPT !.pc = "delaying", !.prompted = FALSE])
    /\ UNCHANGED <<settings, workspaceOpen, phase, sessionRanThisProcess,
                   workspaceState, configFile, dispatched, consentHistory>>
    /\ UNCHANGED unitVars

\* The autoRunDelay timer fires; runHooksForEvent('SessionStart') begins.
DelayDone(r) ==
    /\ r.pc = "delaying"
    /\ invocations' = Moved(r, [r EXCEPT !.pc = "dispatching"])
    /\ UNCHANGED <<settings, workspaceOpen, phase, sessionRanThisProcess, hooksConfig,
                   workspaceState, configFile, dispatched, consentHistory>>
    /\ UNCHANGED unitVars

\* Variant: the session is never marked as ran.
DispatchDoneNoMark(r) ==
    /\ r.pc = "dispatching"
    /\ IF runHooksForEventRaises(hooksConfig, "SessionStart")
       THEN /\ invocations' = Moved(r, [r EXCEPT !.pc = "raised"])
            /\ UNCHANGED dispatched
       ELSE /\ dispatched' = TRUE
            /\ invocations' = Moved(r, [r EXCEPT !.pc = "ran"])
    /\ eventName' = "SessionStart"
    /\ UNCHANGED <<settings, workspaceOpen, phase, sessionRanThisProcess, hooksConfig,
                   workspaceState, configFile, consentHistory>>
    /\ UNCHANGED <<dispatchPc, matcherIndex, hookIndex, results, promptPath, promptRuns,
                   fallbackCalls, offers, discoveryVars, runnerVars>>

\* runHooksForEvent('SessionStart') has settled; eventName keeps the event
\* name it was called with.  When it returned, the session is marked as
\* ran; when it raised, the error leaves runStartupHooks at the await of
\* line 227 and the mark is not reached.
DispatchDone(r) ==
    /\ r.pc = "dispatching"
    /\ IF runHooksForEventRaises(hooksConfig, "SessionStart")
       THEN /\ invocations' = Moved(r, [r EXCEPT !.pc = "raised"])
            /\ UNCHANGED <<sessionRanThisProcess, dispatched>>
       ELSE /\ sessionRanThisProcess' =
                   (sessionRanThisProcess \/ settings.runOncePerSession)
            /\ dispatched' = TRUE
            /\ invocations' = Moved(r, [r EXCEPT !.pc = "ran"])
    /\ eventName' = "SessionStart"
    /\ UNCHANGED <<settings, workspaceOpen, phase, hooksConfig, workspaceState,
                   configFile, consentHistory>>
    /\ UNCHANGED <<dispatchPc, matcherIndex, hookIndex, results, promptPath, promptRuns,
                   fallbackCalls, offers, discoveryVars, runnerVars>>

\* The promise of runStartupHooks settles.  When it resolves, activate goes
\* on to register the workspace-folder listener; when it rejects, activate
\* rejects at its await of line 33 and the listener is never registered.
\* A rejection in the listener is an unhandled rejection of the host.
Resolve(r) ==
    /\ r.pc \in {"skipped", "refused", "ran", "raised"}
    /\ invocations' = invocations (-) SetToBag({r})
    /\ phase' = IF phase # "activating" THEN phase
                ELSE IF r.pc = "raised" THEN "failed"
                ELSE "active"
    /\ UNCHANGED <<settings, workspaceOpen, sessionRanThisProcess, hooksConfig,
                   workspaceState, configFile, dispatched, consentHistory>>
    /\ UNCHANGED unitVars

\* Variant: only a granted record is erased.
resetConsentGrantedOnly(ws, rec) ==
    IF ws /\ rec.status = "granted" THEN NoConsent ELSE rec

\* ConsentManager.resetConsent: the record afterwards.
resetConsent(ws, rec) == IF ws THEN NoConsent ELSE rec

\* The command copilot-prompt-hooks.resetWorkspaceConsent.
ResetWorkspaceConsent ==
    /\ phase \in {"activating", "active", "failed"}
    /\ workspaceState' = resetConsent(workspaceOpen, workspaceState)
    /\ consentHistory' = IF ~workspaceOpen THEN consentHistory
                         ELSE IF workspaceState.status = "denied" THEN "erasedDenied"
                         ELSE "none"
    /\ UNCHANGED <<settings, workspaceOpen, phase, sessionRanThisProcess, hooksConfig,
                   configFile, invocations, dispatched>>
    /\ UNCHANGED unitVars

\* The configureHooks command run from the command palette.
ConfigureHooksCommand ==
    /\ phase \in {"activating", "active", "failed"}
    /\ configFile' = configureHooks(workspaceOpen, configFile)
    /\ UNCHANGED <<settings, workspaceOpen, phase, sessionRanThisProcess, hooksConfig,
                   workspaceState, invocations, dispatched, consentHistory>>
    /\ UNCHANGED unitVars

\* The user (or anything else) writes or deletes the configuration file.
EditConfig(c) ==
    /\ workspaceOpen
    /\ c # configFile
    /\ configFile' = c
    /\ UNCHANGED <<settings, workspaceOpen, phase, sessionRanThisProcess, hooksConfig,
                   workspaceState, invocations, dispatched, consentHistory>>
    /\ UNCHANGED unitVars

\* The window is reloaded: a new extension host process for the same
\* workspace; workspaceState and the file persist.
Reload ==
    /\ phase # "inactive"
    /\ phase' = "inactive"
    /\ sessionRanThisProcess' = FALSE
    /\ hooksConfig' = NoHooksConfig
    /\ invocations' = EmptyBag
    /\ dispatched' = FALSE
    /\ eventName' = "none"
    /\ UNCHANGED <<settings, workspaceOpen, workspaceState, configFile, consentHistory>>
    /\ UNCHANGED <<dispatchPc, matcherIndex, hookIndex, results, promptPath, promptRuns,
                   fallbackCalls, offers, discoveryVars, runnerVars>>

Next ==
    \/ Activate
    \/ FolderAdded
    \/ \E r \in InFlight : HashDone(r)
    \/ \E r \in InFlight : \E s \in Selections : Answer(r, s)
    \/ \E r \in InFlight : StoreDone(r)
    \/ \E r \in InFlight : ConfigureDone(r)
    \/ \E r \in InFlight : LoadDone(r)
    \/ \E r \in InFlight : DelayDone(r)
    \/ \E r \in InFlight : DispatchDone(r)
    \/ \E r \in InFlight : Resolve(r)
    \/ ResetWorkspaceConsent
    \/ ConfigureHooksCommand
    \/ \E c \in {Missing} \cup Contents : EditConfig(c)
    \/ Reload

Spec == Init /\ [][Next]_vars

TypeOK ==
    /\ settings \in Settings
    /\ workspaceOpen \in BOOLEAN
    /\ phase \in {"inactive", "disabled", "activating", "active", "failed"}
    /\ sessionRanThisProcess \in BOOLEAN
    /\ hooksConfig \in {NoHooksConfig} \cup {JSONparse(c) : c \in Contents \ {NotJSON}}
    /\ workspaceState \in {NoConsent} \cup WorkspaceConsent
    /\ configFile \in {Missing} \cup Contents
    /\ BagCardinality(invocations) <= MaxInvocations
    /\ \A r \in InFlight :
          /\ r.pc \in {"hashing", "prompting", "storing", "configuring", "loading",
                       "delaying", "dispatching", "skipped", "refused", "ran",
                       "raised"}
          /\ r.consent \in {NoConsent} \cup WorkspaceConsent
          /\ r.status \in {"none", "granted", "denied"}
          /\ r.hasConsent \in {"unset", "true", "false"}
          /\ r.prompted \in BOOLEAN
    /\ dispatched \in BOOLEAN
    /\ consentHistory \in {"none", "denied", "erasedDenied"}
    /\ eventName \in {"none", "SessionStart"}

\* The startup orchestration is at rest while a single unit is followed.
StartupQuiet ==
    /\ settings = [enabled |-> TRUE, runOncePerSession |-> TRUE, requireConsent |-> TRUE]
    /\ phase = "active"
    /\ sessionRanThisProcess = FALSE
    /\ workspaceState = NoConsent
    /\ configFile = Missing
    /\ invocations = EmptyBag
    /\ dispatched = FALSE
    /\ consentHistory = "none"

(***************************************************************************)
(* PromptDiscovery.findStartupPrompt                                       *)
(*                                                                         *)
(* SpecDiscovery follows one call of findStartupPrompt for every number of *)
(* workspace folders and every set of prompt files in them.  The files are *)
(* taken as they are when the call begins.                                 *)
(***************************************************************************)

\* Variant: the .vscode location is looked at first.
priorityPathsVscodeFirst ==
    <<".vscode/startup.prompt.md", "startup.prompt.md",
      ".github/prompts/startup.prompt.md">>

\* priorityPaths of findStartupPrompt.
priorityPaths ==
    <<"startup.prompt.md", ".github/prompts/startup.prompt.md",
      ".vscode/startup.prompt.md">>

\* The paths of the prompt files of the model: the three conventional
\* locations and one other file that matches **/*.prompt.md.
PromptFilePaths ==
    {"startup.prompt.md", ".github/prompts/startup.prompt.md",
     ".vscode/startup.prompt.md", "docs/review.prompt.md"}

\* The folders that can be workspace folders; one that is not among
\* workspaceFolders lies outside the workspace.
Folders == 1..MaxFolders

\* fileExists(uri): fs.stat(uri) does not raise.
fileExists(uri) == uri \in files

\* What vscode.workspace.findFiles can list for the default pattern: the
\* prompt files of all workspace folders.
findFiles ==
    {uri \in files : \E i \in DOMAIN workspaceFolders : workspaceFolders[i] = uri[1]}

\* What a call of findStartupPrompt can return for the folders and files
\* as they are: the first priority path that exists in the first folder,
\* otherwise a file that findFiles lists, otherwise undefined.
findStartupPrompt ==
    IF workspaceFolders = << >> THEN {NoUri}
    ELSE LET existing == {i \in DOMAIN priorityPaths :
                             fileExists(Uri(workspaceFolders[FirstFolder], priorityPaths[i]))}
         IN  IF existing # {}
             THEN {Uri(workspaceFolders[FirstFolder],
                       priorityPaths[CHOOSE i \in existing : \A j \in existing : i <= j])}
             ELSE IF findFiles = {} THEN {NoUri}
             ELSE findFiles

InitDiscovery ==
    /\ StartupQuiet
    /\ hooksConfig = NoHooksConfig
    /\ DispatchIdle
    /\ RunnerIdle
    /\ \E n \in 0..MaxFolders :
          /\ workspaceFolders = [i \in 1..n |-> i]
          /\ workspaceOpen = (n > 0)
    /\ files \in SUBSET (Folders \X PromptFilePaths)
    /\ discoveryPc = "idle"
    /\ pathIndex = 0
    /\ found = NoUri
    /\ globSearches = 0

\* findStartupPrompt is called: without a workspace folder it returns
\* undefined, otherwise the loop over priorityPaths begins.
FindStartupPrompt ==
    /\ discoveryPc = "idle"
    /\ IF workspaceFolders = << >>
       THEN discoveryPc' = "done" /\ UNCHANGED pathIndex
       ELSE discoveryPc' = "stat" /\ pathIndex' = 1
    /\ UNCHANGED <<workspaceFolders, files, found, globSearches>>
    /\ UNCHANGED <<workspaceOpen, hooksConfig, startupVars, dispatchVars, runnerVars>>

\* One turn of the loop of line 28: the path exists and is returned, or
\* the next one is looked at, or the loop is over.
FileExists ==
    /\ discoveryPc = "stat"
    /\ LET uri == Uri(workspaceFolders[FirstFolder], priorityPaths[pathIndex])
       IN  IF fileExists(uri)
           THEN found' = uri /\ discoveryPc' = "done" /\ UNCHANGED pathIndex
           ELSE IF pathIndex < Len(priorityPaths)
           THEN pathIndex' = pathIndex + 1 /\ UNCHANGED <<found, discoveryPc>>
           ELSE discoveryPc' = "glob" /\ UNCHANGED <<found, pathIndex>>
    /\ UNCHANGED <<workspaceFolders, files, globSearches>>
    /\ UNCHANGED <<workspaceOpen, hooksConfig, startupVars, dispatchVars, runnerVars>>

\* findAllPromptFiles: the first file that findFiles lists is returned, in
\* whatever order the host lists them, or undefined when it lists none.
FindAllPromptFiles ==
    /\ discoveryPc = "glob"
    /\ globSearches' = globSearches + 1
    /\ IF findFiles = {} THEN found' = NoUri ELSE found' \in findFiles
    /\ discoveryPc' = "done"
    /\ UNCHANGED <<workspaceFolders, files, pathIndex>>
    /\ UNCHANGED <<workspaceOpen, hooksConfig, startupVars, dispatchVars, runnerVars>>

NextDiscovery ==
    \/ FindStartupPrompt
    \/ FileExists
    \/ FindAllPromptFiles

SpecDiscovery == InitDiscovery /\ [][NextDiscovery]_vars

TypeOKDiscovery ==
    /\ Len(workspaceFolders) <= MaxFolders
    /\ files \subseteq Folders \X PromptFilePaths
    /\ discoveryPc \in {"idle", "stat", "glob", "done"}
    /\ pathIndex \in 0..Len(priorityPaths)
    /\ found \in {NoUri} \cup files
    /\ globSearches \in 0..1
    /\ discoveryPc = "done" => found \in findStartupPrompt

(***************************************************************************)
(* HooksManager.runHooksForEvent, followed hook by hook                    *)
(*                                                                         *)
(* SpecDispatch follows one call of runHooksForEvent for every loaded      *)
(* configuration of the bounds and every event name.  The call is reached  *)
(* from runStartupHooks only, which is called with a workspace folder.     *)
(* What promptRunner.runPromptFile and promptDiscovery.findStartupPrompt   *)
(* do follows from the files that exist: see runPromptFile(uri) and        *)
(* findStartupPrompt.                                                      *)
(***************************************************************************)

\* The hooks of the configurations: prompt and command hooks with and
\* without the field their type reads, and a command hook that carries the
\* field of the other type as well.
Hooks ==
    {Hook("prompt", "startup.prompt.md", NoString),
     Hook("prompt", NoString, NoString),
     Hook("command", NoString, "npm test"),
     Hook("command", NoString, NoString),
     Hook("command", "startup.prompt.md", "npm test")}

\* The event names that the configurations of the model define matchers
\* for: the one the code compares with, and one of the others.
ConfiguredEvents == {"SessionStart", "FolderOpen"}

\* The messages of the errors that the host raises.
Errors == {"cannot open file", "command failed"}

\* What a call of promptRunner.runPromptFile does: it returns, or it raises
\* an error with a message.
RunOutcomes == {"returns"} \cup Errors

\* HookExecutionResult.  duration is left out.
Success == [success |-> TRUE, error |-> NoString]
Failure(message) == [success |-> FALSE, error |-> message]

\* The values of the setting startupPromptPath.
PromptPaths == {NoString, "x.prompt.md"}

\* The prompt files that may exist when runHooksForEvent is called: the
\* file the hooks of the model name, and the file the setting names.
DispatchFiles ==
    {Uri(FirstFolder, "startup.prompt.md"), Uri(FirstFolder, "x.prompt.md")}

\* What a call of promptRunner.runPromptFile(uri) does, seen from its
\* caller.  A file that does not exist cannot be opened: openTextDocument
\* raises.  For a file that is opened the call returns, with a command
\* that ran the prompt or after the warning, or it raises what
\* workbench.action.chat.open raised after the warning, which nothing
\* catches; what the candidate commands raise is caught.
runPromptFile(uri) ==
    IF uri \in files THEN {"returns", "command failed"} ELSE {"cannot open file"}

\* The loaded configuration is undefined, has no "hooks" mapping, has no
\* entry for an event, or has an entry that WriteMatcher and WriteHook fill.
InitDispatch ==
    /\ StartupQuiet
    /\ workspaceOpen = TRUE
    /\ hooksConfig \in {NoHooksConfig, ConfigWithoutHooks,
                        HooksConfig("SessionStart", NoMatchers)}
                       \cup {HooksConfig(e, Matchers(<< >>)) : e \in ConfiguredEvents}
    /\ DispatchIdle
    /\ workspaceFolders = <<FirstFolder>>
    /\ files \in SUBSET DispatchFiles
    /\ discoveryPc = "idle"
    /\ pathIndex = 0
    /\ found = NoUri
    /\ globSearches = 0
    /\ RunnerIdle

RECURSIVE flattenHooks(_)
\* The hooks of a sequence of matchers, in sequence order.
flattenHooks(ms) ==
    IF ms = << >> THEN << >> ELSE Head(ms).hooks \o flattenHooks(Tail(ms))

\* The event name whose entry of the configuration is defined.
configuredEvent(config) == CHOOSE e \in HookEventName : config.hooks[e].defined

\* The configuration file that was loaded had one more matcher under its
\* event name, with a hooks sequence or without one.
WriteMatcher(matcher) ==
    /\ dispatchPc = "idle"
    /\ hooksConfig # NoHooksConfig
    /\ \E e \in HookEventName : hooksConfig.hooks[e].defined
    /\ LET e == configuredEvent(hooksConfig)
       IN  /\ Len(hooksConfig.hooks[e].matchers) < MaxMatchers
           /\ hooksConfig' =
                 [hooksConfig EXCEPT !.hooks[e].matchers = Append(@, matcher)]
    /\ UNCHANGED <<workspaceOpen, startupVars, dispatchVars, discoveryVars, runnerVars>>

\* The configuration file that was loaded had one more hook in its last
\* matcher.
WriteHook(hook) ==
    /\ dispatchPc = "idle"
    /\ hooksConfig # NoHooksConfig
    /\ \E e \in HookEventName : hooksConfig.hooks[e].defined
    /\ LET e == configuredEvent(hooksConfig)
           ms == hooksConfig.hooks[e].matchers
       IN  /\ ms # << >>
           /\ ms[Len(ms)].isArray
           /\ Len(flattenHooks(ms)) < MaxHooks
           /\ hooksConfig' =
                 [hooksConfig EXCEPT !.hooks[e].matchers[Len(ms)].hooks = Append(@, hook)]
    /\ UNCHANGED <<workspaceOpen, startupVars, dispatchVars, discoveryVars, runnerVars>>

\* this.hooksConfig?.hooks[eventName], read where the configuration has a
\* "hooks" mapping or is undefined.
configuredMatchers(config, e) ==
    IF config = NoHooksConfig THEN NoMatchers ELSE config.hooks[e]

\* Variant: no fallback follows the matchers.
afterMatchersNoFallback(e, rs) == "returned"

\* Line 250: the fallback follows for SessionStart with no result so far.
afterMatchers(e, rs) ==
    IF e = "SessionStart" /\ Len(rs) = 0 THEN "fallback" ELSE "returned"

\* runHooksForEvent(e) up to its first call of runHookMatcher: line 242
\* raises a TypeError for a configuration without a "hooks" mapping.
RunHooksForEvent(e) ==
    /\ dispatchPc = "idle"
    /\ eventName' = e
    /\ IF hooksConfig # NoHooksConfig /\ ~hooksConfig.isMapping
       THEN dispatchPc' = "raised" /\ UNCHANGED matcherIndex
       ELSE IF configuredMatchers(hooksConfig, e).defined
       THEN dispatchPc' = "matchers" /\ matcherIndex' = 1
       ELSE dispatchPc' = afterMatchers(e, results) /\ UNCHANGED matcherIndex
    /\ UNCHANGED <<hookIndex, results, promptPath, promptRuns, fallbackCalls, offers>>
    /\ UNCHANGED <<workspaceOpen, hooksConfig, startupVars, discoveryVars, runnerVars>>

\* The loop of line 243: runHookMatcher is called for the next matcher, or
\* the loop is over.  The loop of line 266 raises a TypeError for a matcher
\* without a hooks sequence, which leaves runHooksForEvent.
RunHookMatcher ==
    /\ dispatchPc = "matchers"
    /\ LET ms == configuredMatchers(hooksConfig, eventName).matchers
       IN  IF matcherIndex > Len(ms)
           THEN dispatchPc' = afterMatchers(eventName, results) /\ UNCHANGED hookIndex
           ELSE IF ~ms[matcherIndex].isArray
           THEN dispatchPc' = "raised" /\ UNCHANGED hookIndex
           ELSE dispatchPc' = "hooks" /\ hookIndex' = 1
    /\ UNCHANGED <<eventName, matcherIndex, results, promptPath, promptRuns,
                   fallbackCalls, offers>>
    /\ UNCHANGED <<workspaceOpen, hooksConfig, startupVars, discoveryVars, runnerVars>>

\* The body of the loop of line 266 for one hook: the results it pushes,
\* none or one.  outcome is what runPromptFile does when it is called.
runHook(hook, ws, outcome) ==
    IF hook.type = "prompt" /\ hook.promptFile # NoString
    THEN IF ~ws THEN << >>
         ELSE IF outcome = "returns" THEN <<Success>>
         ELSE <<Failure(outcome)>>
    ELSE IF hook.type = "command" /\ hook.command # NoString
    THEN <<Failure("Command hooks not yet implemented")>>
    ELSE << >>

\* The hook calls promptRunner.runPromptFile.
runsPromptFile(hook, ws) ==
    hook.type = "prompt" /\ hook.promptFile # NoString /\ ws

\* One turn of the loop of line 266: the next hook is executed, or the loop
\* is over and runHooksForEvent pushes the matcher's results.  (The results
\* are appended as they arise: a call that raises returns none of them.)
RunHook ==
    /\ dispatchPc = "hooks"
    /\ LET hs == configuredMatchers(hooksConfig, eventName).matchers[matcherIndex].hooks
       IN  IF hookIndex > Len(hs)
           THEN /\ dispatchPc' = "matchers"
                /\ matcherIndex' = matcherIndex + 1
                /\ UNCHANGED <<hookIndex, results, promptRuns>>
           ELSE \E outcome \in RunOutcomes :
                  /\ outcome \in
                        IF runsPromptFile(hs[hookIndex], workspaceOpen)
                        THEN runPromptFile(Uri(FirstFolder, hs[hookIndex].promptFile))
                        ELSE {"returns"}
                  /\ results' = results \o runHook(hs[hookIndex], workspaceOpen, outcome)
                  /\ promptRuns' =
                        IF runsPromptFile(hs[hookIndex], workspaceOpen)
                        THEN Append(promptRuns, Uri(FirstFolder, hs[hookIndex].promptFile))
                        ELSE promptRuns
                  /\ hookIndex' = hookIndex + 1
                  /\ UNCHANGED <<dispatchPc, matcherIndex>>
    /\ UNCHANGED <<eventName, promptPath, fallbackCalls, offers>>
    /\ UNCHANGED <<workspaceOpen, hooksConfig, startupVars, discoveryVars, runnerVars>>

\* runFallbackStartupPrompt: the file of the setting or of the discovery is
\* run and gives a result, or there is none and the creation is offered.
RunFallbackStartupPrompt ==
    /\ dispatchPc = "fallback"
    /\ fallbackCalls' = fallbackCalls + 1
    /\ \E path \in PromptPaths, uri \in findStartupPrompt, outcome \in RunOutcomes :
          LET promptUri == IF path # NoString
                           THEN IF workspaceOpen THEN Uri(FirstFolder, path) ELSE NoUri
                           ELSE uri
          IN  /\ promptPath' = path
              /\ IF promptUri # NoUri
                 THEN /\ outcome \in runPromptFile(promptUri)
                      /\ promptRuns' = Append(promptRuns, promptUri)
                      /\ results' = Append(results,
                                           IF outcome = "returns" THEN Success
                                           ELSE Failure(outcome))
                      /\ UNCHANGED offers
                 ELSE /\ outcome = "returns"
                      /\ offers' = offers + 1
                      /\ UNCHANGED <<promptRuns, results>>
    /\ dispatchPc' = "returned"
    /\ UNCHANGED <<eventName, matcherIndex, hookIndex>>
    /\ UNCHANGED <<workspaceOpen, hooksConfig, startupVars, discoveryVars, runnerVars>>

NextDispatch ==
    \/ \E m \in {HookMatcher(<< >>), MatcherWithoutHooks} : WriteMatcher(m)
    \/ \E h \in Hooks : WriteHook(h)
    \/ \E e \in HookEventName : RunHooksForEvent(e)
    \/ RunHookMatcher
    \/ RunHook
    \/ RunFallbackStartupPrompt

SpecDispatch == InitDispatch /\ [][NextDispatch]_vars

\* A call that has begun goes on: the loops are sequential code, and every
\* runPromptFile and findStartupPrompt they await returns or raises.
FairSpecDispatch ==
    /\ SpecDispatch
    /\ WF_vars(RunHookMatcher)
    /\ WF_vars(RunHook)
    /\ WF_vars(RunFallbackStartupPrompt)

TypeOKDispatch ==
    /\ hooksConfig # NoHooksConfig =>
          \A e \in HookEventName :
             /\ Len(hooksConfig.hooks[e].matchers) <= MaxMatchers
             /\ Len(flattenHooks(hooksConfig.hooks[e].matchers)) <= MaxHooks
             /\ \A i \in DOMAIN flattenHooks(hooksConfig.hooks[e].matchers) :
                   flattenHooks(hooksConfig.hooks[e].matchers)[i] \in Hooks
    /\ eventName \in HookEventName \cup {"none"}
    /\ dispatchPc \in {"idle", "matchers", "hooks", "fallback", "returned", "raised"}
    /\ matcherIndex \in 0..(MaxMatchers + 1)
    /\ hookIndex \in 0..(MaxHooks + 1)
    /\ Len(results) <= MaxHooks + 1
    /\ \A i \in DOMAIN results :
          results[i] \in {Success} \cup {Failure(m) :
              m \in Errors \cup {"Command hooks not yet implemented"}}
    /\ promptPath \in PromptPaths
    /\ files \subseteq DispatchFiles
    /\ Len(promptRuns) <= MaxHooks + 1
    /\ fallbackCalls \in 0..1
    /\ offers \in 0..1

(***************************************************************************)
(* PromptRunner.runPromptFile                                              *)
(*                                                                         *)
(* SpecRunner follows the calls of runPromptFile of one PromptRunner, the  *)
(* steps of a call being the stretches between its awaits.  Up to MaxCalls *)
(* calls are in flight at a time (a manual command can start one while the *)
(* startup hooks run another); any number of calls follow one another.     *)
(* Other extensions register and unregister commands at any moment.        *)
(***************************************************************************)

PROMPT_COMMANDS ==
    <<"workbench.action.chat.run.prompt.current",
      "github.copilot.runPromptFile",
      "workbench.action.chat.run.prompt">>

CommandIds == {PROMPT_COMMANDS[i] : i \in DOMAIN PROMPT_COMMANDS}

\* How an awaited host call ends.
CommandOutcomes == {"returns", "raises"}

\* The answers to the warning of line 39; NoString is a dismissed
\* notification.
WarningActions == {"Open Chat", "Dismiss", NoString}

\* The local state of a runPromptFile call:
\*   pc       the await the call is at, or how it ended;
\*   cached   the workingCommand that executePromptCommand invoked first,
\*            NoCommand when there was none;
\*   found    while that invocation lasts, whether the command was
\*            registered when it was invoked;
\*   index    the position in PROMPT_COMMANDS of the loop of line 68, 0
\*            before the loop;
\*   success  what executePromptCommand returned.
Call(p) ==
    [pc |-> p, cached |-> NoCommand, found |-> FALSE, index |-> 0, success |-> FALSE]

Running == BagToSet(calls)

\* The bag after call r moved to local state r2.
MovedCall(r, r2) == (calls (-) SetToBag({r})) (+) SetToBag({r2})

InitRunner ==
    /\ StartupQuiet
    /\ workspaceOpen = TRUE
    /\ hooksConfig = NoHooksConfig
    /\ DispatchIdle
    /\ DiscoveryIdle
    /\ workingCommand = NoCommand
    /\ registry \in SUBSET CommandIds
    /\ calls = EmptyBag

\* runPromptFile is called and awaits the opening of the document.
RunPromptFile ==
    /\ BagCardinality(calls) < MaxCalls
    /\ calls' = calls (+) SetToBag({Call("opening")})
    /\ UNCHANGED <<workingCommand, registry>>
    /\ UNCHANGED <<workspaceOpen, hooksConfig, startupVars, dispatchVars, discoveryVars>>

\* executePromptCommand up to its first await: the cached command is
\* invoked without a look at the registry, or the loop begins with the
\* getCommands of the first tryCommand.
executePromptCommand(r) ==
    IF workingCommand # NoCommand
    THEN [r EXCEPT !.pc = "cached", !.cached = workingCommand,
                   !.found = (workingCommand \in registry)]
    ELSE [r EXCEPT !.pc = "checking", !.index = 1]

\* The awaits of lines 25 to 32 are over: the document could not be opened
\* and the call raises, or executePromptCommand begins.
OpenDone(r, outcome) ==
    /\ r.pc = "opening"
    /\ calls' = MovedCall(r, IF outcome = "raises"
                             THEN [r EXCEPT !.pc = "raised"]
                             ELSE executePromptCommand(r))
    /\ UNCHANGED <<workingCommand, registry>>
    /\ UNCHANGED <<workspaceOpen, hooksConfig, startupVars, dispatchVars, discoveryVars>>

\* Variant: the cache is kept when the cached command raises.
CachedDoneKeepsCache(r, outcome) ==
    /\ r.pc = "cached"
    /\ r.found \/ outcome = "raises"
    /\ IF outcome = "returns"
       THEN calls' = MovedCall(r, [r EXCEPT !.pc = "returned", !.found = FALSE,
                                           !.success = TRUE])
       ELSE calls' = MovedCall(r, [r EXCEPT !.pc = "checking", !.found = FALSE,
                                           !.index = 1])
    /\ UNCHANGED <<workingCommand, registry>>
    /\ UNCHANGED <<workspaceOpen, hooksConfig, startupVars, dispatchVars, discoveryVars>>

\* The invocation of the cached command is over.  A command that was not
\* registered when it was invoked can only raise.  When it raises the cache
\* is cleared and the loop begins.
CachedDone(r, outcome) ==
    /\ r.pc = "cached"
    /\ r.found \/ outcome = "raises"
    /\ IF outcome = "returns"
       THEN /\ calls' = MovedCall(r, [r EXCEPT !.pc = "returned", !.found = FALSE,
                                                !.success = TRUE])
            /\ UNCHANGED workingCommand
       ELSE /\ workingCommand' = NoCommand
            /\ calls' = MovedCall(r, [r EXCEPT !.pc = "checking", !.found = FALSE,
                                                !.index = 1])
    /\ UNCHANGED registry
    /\ UNCHANGED <<workspaceOpen, hooksConfig, startupVars, dispatchVars, discoveryVars>>

\* tryCommand returned false: the loop goes to the next command, or
\* executePromptCommand returns false and the warning is shown.
nextCommand(r) ==
    IF r.index < Len(PROMPT_COMMANDS)
    THEN [r EXCEPT !.pc = "checking", !.index = r.index + 1]
    ELSE [r EXCEPT !.pc = "warning"]

\* tryCommand after getCommands: a command that is not listed is passed
\* over, a listed one is invoked.
TryCommand(r) ==
    /\ r.pc = "checking"
    /\ calls' = MovedCall(r, IF PROMPT_COMMANDS[r.index] \in registry
                             THEN [r EXCEPT !.pc = "executing"]
                             ELSE nextCommand(r))
    /\ UNCHANGED <<workingCommand, registry>>
    /\ UNCHANGED <<workspaceOpen, hooksConfig, startupVars, dispatchVars, discoveryVars>>

\* The invocation of tryCommand is over: the command becomes the cached
\* one and the call returns, or it raised and tryCommand returns false.
ExecuteDone(r, outcome) ==
    /\ r.pc = "executing"
    /\ IF outcome = "returns"
       THEN /\ workingCommand' = PROMPT_COMMANDS[r.index]
            /\ calls' = MovedCall(r, [r EXCEPT !.pc = "returned", !.success = TRUE])
       ELSE /\ calls' = MovedCall(r, nextCommand(r))
            /\ UNCHANGED workingCommand
    /\ UNCHANGED registry
    /\ UNCHANGED <<workspaceOpen, hooksConfig, startupVars, dispatchVars, discoveryVars>>

\* The warning of line 39 is answered or dismissed.
WarningAnswered(r, action) ==
    /\ r.pc = "warning"
    /\ calls' = MovedCall(r, IF action = "Open Chat"
                             THEN [r EXCEPT !.pc = "openingChat"]
                             ELSE [r EXCEPT !.pc = "returned"])
    /\ UNCHANGED <<workingCommand, registry>>
    /\ UNCHANGED <<workspaceOpen, hooksConfig, startupVars, dispatchVars, discoveryVars>>

\* workbench.action.chat.open of line 46 is over; nothing catches what it
\* raises.
OpenChatDone(r, outcome) ==
    /\ r.pc = "openingChat"
    /\ calls' = MovedCall(r, IF outcome = "raises"
                             THEN [r EXCEPT !.pc = "raised"]
                             ELSE [r EXCEPT !.pc = "returned"])
    /\ UNCHANGED <<workingCommand, registry>>
    /\ UNCHANGED <<workspaceOpen, hooksConfig, startupVars, dispatchVars, discoveryVars>>

\* The caller goes on after the call returned or raised.
Settle(r) ==
    /\ r.pc \in {"returned", "raised"}
    /\ calls' = calls (-) SetToBag({r})
    /\ UNCHANGED <<workingCommand, registry>>
    /\ UNCHANGED <<workspaceOpen, hooksConfig, startupVars, dispatchVars, discoveryVars>>

\* An extension registers a command.
Register(c) ==
    /\ c \notin registry
    /\ registry' = registry \cup {c}
    /\ UNCHANGED <<workingCommand, calls>>
    /\ UNCHANGED <<workspaceOpen, hooksConfig, startupVars, dispatchVars, discoveryVars>>

\* A command is disposed of.
Unregister(c) ==
    /\ c \in registry
    /\ registry' = registry \ {c}
    /\ UNCHANGED <<workingCommand, calls>>
    /\ UNCHANGED <<workspaceOpen, hooksConfig, startupVars, dispatchVars, discoveryVars>>

NextRunner ==
    \/ RunPromptFile
    \/ \E r \in Running, outcome \in CommandOutcomes : OpenDone(r, outcome)
    \/ \E r \in Running, outcome \in CommandOutcomes : CachedDone(r, outcome)
    \/ \E r \in Running : TryCommand(r)
    \/ \E r \in Running, outcome \in CommandOutcomes : ExecuteDone(r, outcome)
    \/ \E r \in Running, action \in WarningActions : WarningAnswered(r, action)
    \/ \E r \in Running, outcome \in CommandOutcomes : OpenChatDone(r, outcome)
    \/ \E r \in Running : Settle(r)
    \/ \E c \in CommandIds : Register(c)
    \/ \E c \in CommandIds : Unregister(c)

SpecRunner == InitRunner /\ [][NextRunner]_vars

TypeOKRunner ==
    /\ workingCommand \in {NoCommand} \cup CommandIds
    /\ registry \subseteq CommandIds
    /\ BagCardinality(calls) <= MaxCalls
    /\ \A r \in Running :
          /\ r.pc \in {"opening", "cached", "checking", "executing", "warning",
                       "openingChat", "returned", "raised"}
          /\ r.cached \in {NoCommand} \cup CommandIds
          /\ r.found \in BOOLEAN
          /\ r.index \in 0..Len(PROMPT_COMMANDS)
          /\ r.success \in BOOLEAN

(***************************************************************************)
(* The manual commands runPrompt and selectAndRunPrompt                    *)
(*                                                                         *)
(* SpecManual is the run of the startup hooks that activation starts,      *)
(* together with the two commands that run a prompt on request.  A command *)
(* hands a file to runPromptFile; the call is in flight until it returns   *)
(* or raises (its steps are those of SpecRunner).                          *)
(***************************************************************************)

\* The files that can exist while the manual commands are followed.
ManualFiles == {Uri(FirstFolder, "startup.prompt.md")}

\* registerCommands ran: the handlers stay registered for the life of the
\* extension host process.
commandsRegistered == phase \in {"activating", "active", "failed"}

InitManual ==
    /\ settings \in Settings
    /\ workspaceOpen \in BOOLEAN
    /\ phase = "inactive"
    /\ sessionRanThisProcess = FALSE
    /\ hooksConfig = NoHooksConfig
    /\ workspaceState = NoConsent
    /\ configFile \in {Missing} \cup Contents
    /\ invocations = EmptyBag
    /\ dispatched = FALSE
    /\ consentHistory = "none"
    /\ DispatchIdle
    /\ workspaceFolders = IF workspaceOpen THEN <<FirstFolder>> ELSE << >>
    /\ files \in SUBSET ManualFiles
    /\ discoveryPc = "idle"
    /\ pathIndex = 0
    /\ found = NoUri
    /\ globSearches = 0
    /\ RunnerIdle

\* Variant: the command runs a prompt only under a granted consent and
\* before the automatic run of the process.
RunPromptGated ==
    /\ commandsRegistered
    /\ workspaceState.status = "granted"
    /\ ~sessionRanThisProcess
    /\ BagCardinality(calls) < MaxCalls
    /\ \E path \in PromptPaths, uri \in findStartupPrompt :
          LET promptUri == IF path # NoString
                           THEN IF workspaceFolders # << >>
                                THEN Uri(workspaceFolders[FirstFolder], path)
                                ELSE NoUri
                           ELSE uri
          IN  IF promptUri # NoUri
              THEN calls' = calls (+) SetToBag({Call("opening")})
              ELSE UNCHANGED calls
    /\ UNCHANGED <<workingCommand, registry>>
    /\ UNCHANGED <<workspaceOpen, hooksConfig, startupVars, dispatchVars, discoveryVars>>

\* The command copilot-prompt-hooks.runPrompt: the configured path joined
\* to the first folder, otherwise the discovered file, is handed to
\* runPromptFile; without a file a warning offers to create one.
RunPrompt ==
    /\ commandsRegistered
    /\ BagCardinality(calls) < MaxCalls
    /\ \E path \in PromptPaths, uri \in findStartupPrompt :
          LET promptUri == IF path # NoString
                           THEN IF workspaceFolders # << >>
                                THEN Uri(workspaceFolders[FirstFolder], path)
                                ELSE NoUri
                           ELSE uri
          IN  IF promptUri # NoUri
              THEN calls' = calls (+) SetToBag({Call("opening")})
              ELSE UNCHANGED calls
    /\ UNCHANGED <<workingCommand, registry>>
    /\ UNCHANGED <<workspaceOpen, hooksConfig, startupVars, dispatchVars, discoveryVars>>

\* The command copilot-prompt-hooks.selectAndRunPrompt: the file picked
\* among those findAllPromptFiles lists is handed to runPromptFile; NoUri is
\* a dismissed pick.
SelectAndRunPrompt ==
    /\ commandsRegistered
    /\ BagCardinality(calls) < MaxCalls
    /\ IF findFiles = {}
       THEN UNCHANGED calls
       ELSE \E selected \in findFiles \cup {NoUri} :
               IF selected # NoUri
               THEN calls' = calls (+) SetToBag({Call("opening")})
               ELSE UNCHANGED calls
    /\ UNCHANGED <<workingCommand, registry>>
    /\ UNCHANGED <<workspaceOpen, hooksConfig, startupVars, dispatchVars, discoveryVars>>

\* The runPromptFile call a command awaits returns or raises, and the
\* handler ends.
ManualRunDone(r) ==
    /\ r.pc = "opening"
    /\ calls' = calls (-) SetToBag({r})
    /\ UNCHANGED <<workingCommand, registry>>
    /\ UNCHANGED <<workspaceOpen, hooksConfig, startupVars, dispatchVars, discoveryVars>>

\* The steps of the run that activation starts, and of what goes on
\* around it.
NextActivation ==
    \/ Activate
    \/ \E r \in InFlight : HashDone(r)
    \/ \E r \in InFlight : \E s \in Selections : Answer(r, s)
    \/ \E r \in InFlight : StoreDone(r)
    \/ \E r \in InFlight : ConfigureDone(r)
    \/ \E r \in InFlight : LoadDone(r)
    \/ \E r \in InFlight : DelayDone(r)
    \/ \E r \in InFlight : DispatchDone(r)
    \/ \E r \in InFlight : Resolve(r)
    \/ ResetWorkspaceConsent
    \/ ConfigureHooksCommand
    \/ \E c \in {Missing} \cup Contents : EditConfig(c)
    \/ Reload

NextManual ==
    \/ NextActivation
    \/ RunPrompt
    \/ SelectAndRunPrompt
    \/ \E r \in Running : ManualRunDone(r)

SpecManual == InitManual /\ [][NextManual]_vars

TypeOKManual ==
    /\ TypeOK
    /\ workspaceFolders = IF workspaceOpen THEN <<FirstFolder>> ELSE << >>
    /\ files \subseteq ManualFiles
    /\ BagCardinality(calls) <= MaxCalls
    /\ \A r \in Running : r = Call("opening")

(***************************************************************************)
(* Properties                                                              *)
(***************************************************************************)

\* The invocations in flight after the step.
After == BagToSet(invocations')

\* The step is a call of runStartupHooks that suspends or ends in state r2.
Begins(r2) == invocations' = invocations (+) SetToBag({r2})

\* The step resumes invocation r, which moves to local state r2.
Resumes(r, r2) == r # r2 /\ invocations' = Moved(r, r2)

\* The step is a call of runStartupHooks that calls checkAndRequestConsent.
ChecksConsent(r2) == settings.requireConsent /\ r2.pc # "skipped" /\ Begins(r2)

\* checkAndRequestConsent of invocation r resumes from reading the hash.
HashResumes(r, r2) == r.pc = "hashing" /\ Resumes(r, r2)

\* The decision a check would take on record rec with the file as it is.
CheckOn(rec, file) ==
    checkAndRequestConsent(workspaceOpen, rec, getHooksConfigHash(workspaceOpen, file))

\* C1: with requireConsent, an invocation of runStartupHooks is at the
\* configuration load, the delay or the dispatch (where prompt files are
\* opened and execute-prompt commands invoked) only after its own
\* checkAndRequestConsent returned true; after false it ends, and the
\* configuration is loaded by such an invocation only.
ConsentGating ==
    /\ [](\A r \in InFlight :
            (settings.requireConsent
               /\ r.pc \in {"loading", "delaying", "dispatching", "ran"})
            => r.hasConsent = "true")
    /\ [](\A r \in InFlight : r.hasConsent = "false" => r.pc = "refused")
    /\ [][ /\ (hooksConfig' # hooksConfig /\ phase' # "inactive")
              => \E r \in InFlight : \E r2 \in After :
                    /\ r.pc = "loading" /\ r2.pc = "delaying"
                    /\ Resumes(r, r2)
                    /\ settings.requireConsent => r.hasConsent = "true"
           /\ \A r \in InFlight : \A r2 \in After :
                 r.pc = "refused" => ~Resumes(r, r2) ]_vars

ConsentGatingWitness ==
    \E r \in InFlight :
        settings.requireConsent /\ r.pc = "dispatching" /\ r.hasConsent = "true"

\* C2: a check that read a granted record with fingerprint F and finds the
\* current fingerprint different from F shows the prompt and has not
\* returned; after a prompt it returns true only through a stored grant.
StaleGrantReprompts ==
    [][ /\ \A r2 \in After :
              (r2.pc = "hashing" /\ Begins(r2))
              => (r2.consent = workspaceState /\ workspaceState.status = "granted")
        /\ \A r \in InFlight : \A r2 \in After :
              /\ (/\ r.consent.configHash # NoHash
                  /\ getHooksConfigHash(workspaceOpen, configFile) # r.consent.configHash
                  /\ HashResumes(r, r2))
                 => (r2.pc = "prompting" /\ r2.prompted /\ r2.hasConsent = "unset")
              /\ (/\ r.prompted
                  /\ r.hasConsent # "true" /\ r2.hasConsent = "true"
                  /\ Resumes(r, r2))
                 => (r.pc = "storing" /\ r.status = "granted")
              /\ (r.pc = "prompting" /\ r2.pc = "refused" /\ Resumes(r, r2))
                 => r2.hasConsent = "false" ]_vars

StaleGrantRepromptsWitness ==
    /\ phase = "activating"
    /\ \E r \in InFlight : r.pc = "prompting"
    /\ workspaceState.status = "granted"
    /\ workspaceState.configHash # NoHash
    /\ getHooksConfigHash(workspaceOpen, configFile) # workspaceState.configHash

\* C3: a check that read a granted record whose fingerprint (or absence of
\* one) differs from the current fingerprint of the configuration - the
\* file was edited, created or deleted after the grant - shows the prompt.
ChangedConfigReprompts ==
    [][\A r \in InFlight : \A r2 \in After :
         (/\ getHooksConfigHash(workspaceOpen, configFile) # r.consent.configHash
          /\ HashResumes(r, r2))
         => r2.pc = "prompting" ]_vars

\* C4 as stated: with runOncePerSession, every invocation after the first
\* of the process (activate's own, made before the listener exists) is
\* skipped.
LaterInvocationsSkipped ==
    [][\A r2 \in After :
         (settings.runOncePerSession /\ phase = "active" /\ Begins(r2))
         => r2.pc = "skipped" ]_vars

\* C4 amended: with runOncePerSession, every invocation that begins after
\* a dispatch of the process has completed is skipped: no consent check,
\* no configuration load, no dispatch.
SkippedOnceDispatched ==
    [][ /\ \A r2 \in After :
              (settings.runOncePerSession /\ dispatched /\ Begins(r2))
              => /\ r2 = Invocation("skipped")
                 /\ UNCHANGED <<hooksConfig, workspaceState, configFile, dispatched>>
        /\ \A r \in InFlight : \A r2 \in After :
              r.pc = "skipped" => ~Resumes(r, r2) ]_vars

SkippedOnceDispatchedWitness ==
    /\ settings.runOncePerSession
    /\ dispatched
    /\ \E r \in InFlight : r.pc = "skipped"

\* C5: with runOncePerSession, no SessionStart dispatch completes in a
\* process in which one has completed: at most one per process.
OneDispatchPerProcess ==
    [][\A r \in InFlight : \A r2 \in After :
         (settings.runOncePerSession /\ dispatched /\ r2.pc = "ran")
         => ~Resumes(r, r2) ]_vars

DeniedUntilReset ==
    [][\A r2 \in After :
         (consentHistory = "denied" /\ ChecksConsent(r2))
         => (r2.pc = "refused" /\ r2.hasConsent = "false" /\ ~r2.prompted) ]_vars

\* C8: resetConsent leaves no record for the open workspace, whatever the
\* record was, and a check that finds no record shows the prompt.
ResetThenPrompt ==
    [][ /\ (ResetWorkspaceConsent /\ workspaceOpen) => workspaceState' = NoConsent
        /\ \A r2 \in After :
             (workspaceOpen /\ workspaceState = NoConsent /\ ChecksConsent(r2))
             => (r2.pc = "prompting" /\ r2.prompted /\ r2.hasConsent = "unset") ]_vars

ResetThenPromptWitness ==
    /\ phase = "activating"
    /\ \E r \in InFlight : r.pc = "prompting" /\ r.prompted
    /\ workspaceState = NoConsent
    /\ consentHistory = "erasedDenied"

\* checkAndRequestConsent of invocation r returns false for the answer
\* Configure or for a dismissed prompt (not for Deny, which stores first).
Deferred(r, r2) ==
    r.pc \in {"prompting", "configuring"} /\ r2.pc = "refused" /\ Resumes(r, r2)

\* C9 as stated: returning for Configure or a dismissal leaves the record
\* as it was, and a record that made the check prompt still does so.
DeferredPromptsAgain ==
    [][\A r \in InFlight : \A r2 \in After :
         Deferred(r, r2)
         => /\ r2.hasConsent = "false"
            /\ workspaceState' = workspaceState
            /\ CheckOn(workspaceState, configFile) = "prompt"
               => CheckOn(workspaceState', configFile') = "prompt" ]_vars

\* C9 amended: the same, except that Configure creates the default file
\* when the file is missing, which makes a granted record that carries the
\* default file's fingerprint current again.
DeferredKeepsRecord ==
    [][\A r \in InFlight : \A r2 \in After :
         Deferred(r, r2)
         => /\ r2.hasConsent = "false"
            /\ workspaceState' = workspaceState
            /\ (/\ CheckOn(workspaceState, configFile) = "prompt"
                /\ ~(/\ r.pc = "configuring"
                     /\ configFile = Missing
                     /\ workspaceState.status = "granted"
                     /\ workspaceState.configHash = sha256hex16(DefaultConfig)))
               => CheckOn(workspaceState', configFile') = "prompt" ]_vars

DeferredKeepsRecordWitness ==
    /\ phase = "activating"
    /\ \E r \in InFlight : r.pc = "refused" /\ r.prompted /\ r.hasConsent = "false"
    /\ workspaceState.status = "granted"
    /\ CheckOn(workspaceState, configFile) = "prompt"

\* C10: a grant or a denial replaces the record by one with that status
\* and the fingerprint of the file as setConsent reads it; Allow and Allow
\* Always store the same; a check on the record of a grant and the same
\* file returns true.
DecisionStoresCurrentHash ==
    [][\A r \in InFlight : \A r2 \in After :
         /\ (r.pc = "prompting" /\ r2.pc = "storing" /\ Resumes(r, r2))
            => (r2.status \in {"granted", "denied"} /\ workspaceState' = workspaceState)
         /\ (r.pc = "storing" /\ Resumes(r, r2))
            => /\ workspaceState' =
                     [status |-> r.status,
                      configHash |-> getHooksConfigHash(workspaceOpen, configFile)]
               /\ configFile' = configFile
               /\ r.status = "granted"
                  => (r2.hasConsent = "true"
                        /\ CheckOn(workspaceState', configFile') = "true")
               /\ r.status = "denied" => r2.hasConsent = "false" ]_vars

DecisionStoresCurrentHashWitness ==
    /\ phase = "activating"
    /\ \E r \in InFlight : r.pc = "loading" /\ r.prompted /\ r.hasConsent = "true"
    /\ configFile # Missing
    /\ workspaceState = [status |-> "granted", configHash |-> sha256hex16(configFile)]

\* The hooks of the matcher that runHookMatcher is in.
currentHooks ==
    configuredMatchers(hooksConfig, eventName).matchers[matcherIndex].hooks

\* The step executes the hook at hookIndex.
ExecutesHook == dispatchPc = "hooks" /\ hookIndex <= Len(currentHooks)

\* C11: the step that executes a hook of type command, whatever its other
\* fields, pushes exactly the result success = false with the error
\* "Command hooks not yet implemented" and calls nothing.
CommandHookNotImplemented ==
    [][(ExecutesHook /\ currentHooks[hookIndex].type = "command")
       => /\ results' = Append(results, Failure("Command hooks not yet implemented"))
          /\ promptRuns' = promptRuns ]_vars

\* The result is one that executing the hook can give.
ResultOf(result, hook) ==
    IF hook.type = "command"
    THEN result = Failure("Command hooks not yet implemented")
    ELSE result \in {Success} \cup {Failure(m) : m \in Errors}

\* C12: a call that found matchers defined for its event returns one result
\* per hook of the flattened hook sequence, the i-th being the outcome of
\* the i-th hook.
OneResultPerHook ==
    (dispatchPc = "returned"
       /\ configuredMatchers(hooksConfig, eventName).defined
       /\ configuredMatchers(hooksConfig, eventName).matchers # << >>)
    => LET hs == flattenHooks(configuredMatchers(hooksConfig, eventName).matchers)
       IN  /\ Len(results) = Len(hs)
           /\ \A i \in DOMAIN results : ResultOf(results[i], hs[i])

\* C13: the fallback is executed only for SessionStart and only when the
\* configuration defines no matchers for it, whatever the hooks of defined
\* matchers produce.
FallbackOnlyWithoutMatchers ==
    fallbackCalls > 0
    => /\ eventName = "SessionStart"
       /\ configuredMatchers(hooksConfig, eventName).matchers = << >>

\* C14: a SessionStart dispatch with the configuration absent or defining
\* zero matchers for SessionStart has executed the fallback exactly once
\* when it ends.
FallbackExactlyOnce ==
    (dispatchPc \in {"returned", "raised"}
       /\ eventName = "SessionStart"
       /\ \/ hooksConfig = NoHooksConfig
          \/ hooksConfig.hooks[eventName].matchers = << >>)
    => fallbackCalls = 1

\* C15: once a hook has raised an error, recorded as a failure result with
\* the error's message, every hook executed after it gets its own result.
LaterHooksGetResults ==
    [][(ExecutesHook /\ \E i \in DOMAIN results : results[i].error \in Errors)
       => Len(results') = Len(results) + 1 ]_vars

\* C16: no invocation of runStartupHooks raises an error to its caller,
\* whatever the content of the configuration file.
StartupHooksNeverRaise ==
    /\ \A r \in InFlight : r.pc # "raised"
    /\ phase # "failed"

\* C17: a call that has returned with a workspace folder open returns the
\* first of startup.prompt.md, .github/prompts/startup.prompt.md and
\* .vscode/startup.prompt.md that exists in the first folder, without any
\* glob search; when none of them exists it has searched once and returns
\* a file of the search, or none when the search lists nothing.
FirstPriorityPathWins ==
    workspaceFolders # << >> =>
       LET root == workspaceFolders[1]
           p1 == Uri(root, "startup.prompt.md")
           p2 == Uri(root, ".github/prompts/startup.prompt.md")
           p3 == Uri(root, ".vscode/startup.prompt.md")
       IN  /\ ({p1, p2, p3} \cap files # {}) => globSearches = 0
           /\ discoveryPc = "done" =>
                IF p1 \in files THEN found = p1
                ELSE IF p2 \in files THEN found = p2
                ELSE IF p3 \in files THEN found = p3
                ELSE /\ globSearches = 1
                     /\ IF findFiles = {} THEN found = NoUri ELSE found \in findFiles

FirstPriorityPathWinsWitness ==
    /\ discoveryPc = "done"
    /\ workspaceFolders # << >>
    /\ Uri(workspaceFolders[1], "startup.prompt.md") \notin files
    /\ Uri(workspaceFolders[1], ".github/prompts/startup.prompt.md") \in files
    /\ Uri(workspaceFolders[1], ".vscode/startup.prompt.md") \in files
    /\ found = Uri(workspaceFolders[1], ".github/prompts/startup.prompt.md")
    /\ globSearches = 0

\* C18: a call that has returned returns none without a workspace folder,
\* and otherwise none or a file of the first workspace folder.
FoundUnderFirstFolder ==
    discoveryPc = "done" =>
       IF workspaceFolders = << >> THEN found = NoUri
       ELSE found = NoUri \/ found[1] = workspaceFolders[1]

\* The command whose invocation made executePromptCommand return true in
\* a call that ended at local state r.
succeeded(r) == IF r.index = 0 THEN r.cached ELSE PROMPT_COMMANDS[r.index]

\* C19: whenever executePromptCommand returns true in a call, the cached
\* working command is from then on the command whose invocation succeeded.
CacheHoldsSucceeded ==
    [][\A r \in Running :
          \A r2 \in BagToSet(calls') :
             ( /\ r.pc \in {"cached", "executing"}
               /\ r2.pc = "returned"
               /\ r2.success
               /\ calls' = MovedCall(r, r2) )
             => workingCommand' = succeeded(r2)]_vars

\* C20: every invocation of an execute-prompt command, of the cached one
\* and of one of the loop, names a command that is registered at that
\* moment.
InvokesOnlyRegistered ==
    [][\A r \in Running :
          \A r2 \in BagToSet(calls') :
             ( /\ r.pc \in {"opening", "checking"}
               /\ r2.pc \in {"cached", "executing"}
               /\ calls' = MovedCall(r, r2) )
             => (IF r2.pc = "cached" THEN r2.cached ELSE PROMPT_COMMANDS[r2.index])
                   \in registry]_vars

\* C21: a call in which no candidate command succeeded (the loop over
\* PROMPT_COMMANDS was left after its last command) returns to its caller;
\* it does not raise an error.
ExhaustionReturnsNormally ==
    \A r \in Running :
       (r.index = Len(PROMPT_COMMANDS) /\ ~r.success)
       => r.pc \in {"checking", "executing", "warning", "openingChat", "returned"}

\* The SessionStart dispatch has returned and found no configuration.
ReturnedWithoutConfig ==
    dispatchPc = "returned" /\ eventName = "SessionStart" /\ hooksConfig = NoHooksConfig

\* C22: a SessionStart dispatch without structured configuration, with
\* startupPromptPath = "x.prompt.md" and that file existing, has handed
\* that file to runPromptFile and returns exactly one result, a success.
ConfiguredPromptSucceeds ==
    (ReturnedWithoutConfig
       /\ promptPath = "x.prompt.md"
       /\ Uri(FirstFolder, "x.prompt.md") \in files)
    => /\ promptRuns = <<Uri(FirstFolder, "x.prompt.md")>>
       /\ results = <<Success>>

\* None of the conventional prompt files exists and the glob search lists
\* nothing.
NoPromptFile ==
    /\ \A i \in DOMAIN priorityPaths :
          Uri(workspaceFolders[FirstFolder], priorityPaths[i]) \notin files
    /\ findFiles = {}

\* C23: a SessionStart dispatch without configuration file, with an empty
\* startupPromptPath, no conventional prompt file and an empty glob search
\* returns zero results, has handed no file to runPromptFile (so that no
\* file is opened and no command invoked) and has offered the creation of
\* a prompt file exactly once; before it returns it has offered it at most
\* once.
NothingFoundOffersOnce ==
    /\ offers <= 1
    /\ (ReturnedWithoutConfig /\ promptPath = NoString /\ NoPromptFile)
       => /\ results = << >>
          /\ promptRuns = << >>
          /\ offers = 1

NothingFoundOffersOnceWitness ==
    /\ ReturnedWithoutConfig
    /\ promptPath = NoString
    /\ NoPromptFile
    /\ fallbackCalls = 1
    /\ offers = 1
    /\ results = << >>

\* The fallback has not found a prompt file: the configured path does not
\* exist, or without a configured path the discovery returns none.
FallbackFindsNone ==
    IF promptPath # NoString
    THEN Uri(FirstFolder, promptPath) \notin files
    ELSE findStartupPrompt = {NoUri}

\* C26: a fallback that has not found a prompt file has run nothing and has
\* offered the creation of a prompt file; a file that the fallback has run
\* exists.
NotFoundOffers ==
    (dispatchPc = "returned" /\ fallbackCalls = 1)
    => /\ FallbackFindsNone => (promptRuns = << >> /\ offers = 1)
       /\ \A i \in DOMAIN promptRuns : promptRuns[i] \in files

\* C28: the step that hands a file to runPromptFile, for a prompt hook or
\* for the fallback, pushes one result, whose success flag is true exactly
\* when the file could be opened.
SuccessIffOpened ==
    [][Len(promptRuns') > Len(promptRuns)
       => /\ Len(results') = Len(results) + 1
          /\ results'[Len(results')].success
                <=> (promptRuns'[Len(promptRuns')] \in files) ]_vars

\* C24: the dispatch made by an invocation of the workspace-folder
\* listener (the listener exists once activate is over) is a dispatch of
\* the FolderOpen event.
FolderAddedDispatchesFolderOpen ==
    [][\A r \in InFlight : \A r2 \in After :
         (phase = "active" /\ r.pc = "dispatching" /\ Resumes(r, r2))
         => eventName' = "FolderOpen" ]_vars

\* The awaits of runStartupHooks in the order of its text: an invocation
\* suspended at the first resumes into the second.
Follows ==
    {<<"hashing", "prompting">>, <<"hashing", "loading">>,
     <<"prompting", "storing">>, <<"prompting", "configuring">>,
     <<"prompting", "refused">>, <<"storing", "loading">>, <<"storing", "refused">>,
     <<"configuring", "refused">>,
     <<"loading", "delaying">>, <<"delaying", "dispatching">>,
     <<"dispatching", "ran">>, <<"dispatching", "raised">>}

\* C25: an invocation begins with the guard check, which alone ends it when
\* the guard is set under runOncePerSession; then the consent check, made
\* only with requireConsent; then the load, the delay and the dispatch, in
\* this order.  The guard becomes true only in the step that completes a
\* dispatch, which sets it exactly when runOncePerSession is true; no other
\* step of an invocation changes it.
OrchestrationOrder ==
    [][ /\ sessionRanThisProcess' # sessionRanThisProcess
           => IF sessionRanThisProcess' THEN settings.runOncePerSession
              ELSE phase' = "inactive"
        /\ \A r2 \in After :
              Begins(r2)
              => /\ sessionRanThisProcess' = sessionRanThisProcess
                 /\ IF settings.runOncePerSession /\ sessionRanThisProcess
                    THEN r2.pc = "skipped"
                    ELSE IF settings.requireConsent
                    THEN r2.pc \in {"hashing", "prompting", "refused"}
                    ELSE r2.pc = "loading"
        /\ \A r \in InFlight : \A r2 \in After :
              Resumes(r, r2)
              => /\ <<r.pc, r2.pc>> \in Follows
                 /\ r.pc \in {"hashing", "prompting", "storing", "configuring"}
                    => settings.requireConsent
                 /\ sessionRanThisProcess' =
                       IF r.pc = "dispatching" /\ r2.pc = "ran"
                       THEN sessionRanThisProcess \/ settings.runOncePerSession
                       ELSE sessionRanThisProcess ]_vars

OrchestrationOrderWitness ==
    /\ settings.runOncePerSession
    /\ settings.requireConsent
    /\ sessionRanThisProcess
    /\ \E r \in InFlight : r.pc = "ran" /\ r.hasConsent = "true"

\* C29: with requireConsent, when an invocation completes a dispatch of a
\* loaded configuration, the granted record of the workspace carries the
\* fingerprint of the file content that the configuration was loaded from.
LoadedFingerprintIsStored ==
    [][\A r \in InFlight : \A r2 \in After :
         (/\ settings.requireConsent
          /\ hooksConfig # NoHooksConfig
          /\ r.pc = "dispatching" /\ r2.pc = "ran"
          /\ Resumes(r, r2))
         => /\ workspaceState.status = "granted"
            /\ \E c \in Contents :
                  /\ JSONparses(c)
                  /\ hooksConfig = JSONparse(c)
                  /\ workspaceState.configHash = sha256hex16(c) ]_vars

\* C27: a dispatch that has begun the loop over the configured matchers
\* goes through them to its end and returns.
DispatchCompletes == (dispatchPc = "matchers") ~> (dispatchPc = "returned")

\* C30: the manual commands run a prompt whatever the consent record and
\* the run guard are, during and after an automatic run, and leave both as
\* they were.
ManualRunIgnoresConsentAndGuard ==
    /\ (commandsRegistered /\ workspaceOpen /\ BagCardinality(calls) < MaxCalls)
          => ENABLED (RunPrompt /\ calls' # calls)
    /\ (commandsRegistered /\ findFiles # {} /\ BagCardinality(calls) < MaxCalls)
          => ENABLED (SelectAndRunPrompt /\ calls' # calls)
    /\ ~ENABLED (RunPrompt /\ ~UNCHANGED <<workspaceState, sessionRanThisProcess>>)
    /\ ~ENABLED (SelectAndRunPrompt /\ ~UNCHANGED <<workspaceState, sessionRanThisProcess>>)

\* A manual run is in flight under a denied consent, the invocation that
\* stored the denial not yet over.
ManualRunIgnoresConsentAndGuardWitness ==
    /\ workspaceState.status = "denied"
    /\ invocations # EmptyBag
    /\ calls # EmptyBag

\* C31: within one runPromptFile call no command identifier is invoked
\* twice: a command the loop invokes is not the cached command the call
\* invoked before the loop.
InvokedAtMostOncePerCall ==
    \A r \in Running :
       r.pc = "executing" => PROMPT_COMMANDS[r.index] # r.cached

\* The step moves call r to local state r2.
Steps(r, r2) == r # r2 /\ calls' = MovedCall(r, r2)

\* C32 as stated: the cached working command is empty or a known
\* identifier, and it is empty once a call has ended without a command
\* having succeeded in it.
CacheEmptyAfterFailedCall ==
    /\ workingCommand \in {NoCommand} \cup CommandIds
    /\ \A r \in Running :
          (r.pc \in {"returned", "raised"} /\ ~r.success) => workingCommand = NoCommand

\* C32, amended: the cached working command is empty or a known
\* identifier; it is emptied when the cached invocation of a call raises,
\* and only the step in which a command of the loop succeeds puts a command
\* into it, that very command: a call in which no command succeeds never
\* fills the cache.
CacheFilledOnlyBySuccess ==
    [][ /\ workingCommand' \in {NoCommand} \cup CommandIds
        /\ \A r \in Running :
              \A r2 \in BagToSet(calls') :
                 (r.pc = "cached" /\ r2.pc = "checking" /\ Steps(r, r2))
                    => workingCommand' = NoCommand
        /\ (workingCommand' # workingCommand /\ workingCommand' # NoCommand)
              => \E r \in Running :
                    \E r2 \in BagToSet(calls') :
                       /\ r.pc = "executing"
                       /\ r2.pc = "returned"
                       /\ r2.success
                       /\ Steps(r, r2)
                       /\ workingCommand' = PROMPT_COMMANDS[r2.index] ]_vars

\* A call whose cached command raised and whose loop found no command has
\* shown the warning or returned, and the cache is empty.
CacheFilledOnlyBySuccessWitness ==
    \E r \in Running :
       /\ r.pc \in {"warning", "returned"}
       /\ ~r.success
       /\ r.cached # NoCommand
       /\ r.index = Len(PROMPT_COMMANDS)
       /\ workingCommand = NoCommand
====
